---- MODULE Spec2Model ----
(***************************************************************************)
(* A model of the stock-dashboard client, src/app.js: the watchlist        *)
(* (`stocks`), its persisted copy (localStorage entry 'stocks'), the quote *)
(* cards, the quote requests in flight and the delayed auto-removals.      *)
(*                                                                         *)
(* Text is modelled as a sequence of one-character strings, so trimming,   *)
(* uppercasing and substring search are computed, not assumed.  Each async *)
(* function is cut at its awaits: the part up to the await is one step,    *)
(* the continuation after the response is another.                         *)
(***************************************************************************)
EXTENDS Integers, Sequences, FiniteSets, TLC

\* ------------------------------------------------------------------ bounds
\* Quote requests in flight plus pending auto-removal timers, in total.
MaxPending == 2
\* Length of the longest persisted list the page is started with.
MaxSaved == 2

\* ------------------------------------------------------------------- text
Blank == " "
Whitespace == {Blank}

\* String.prototype.toUpperCase, on the characters the inputs are made of.
UpperChar(c) ==
  CASE c = "a" -> "A"
    [] c = "b" -> "B"
    [] OTHER -> c

ToUpperCase(s) == [i \in 1..Len(s) |-> UpperChar(s[i])]

RECURSIVE TrimStart(_)
TrimStart(s) ==
  IF s # <<>> /\ Head(s) \in Whitespace THEN TrimStart(Tail(s)) ELSE s

RECURSIVE TrimEnd(_)
TrimEnd(s) ==
  IF s # <<>> /\ s[Len(s)] \in Whitespace
  THEN TrimEnd(SubSeq(s, 1, Len(s) - 1))
  ELSE s

\* String.prototype.trim
Trim(s) == TrimEnd(TrimStart(s))

\* String.prototype.includes: substring search
StrIncludes(s, sub) ==
  \E i \in 0..(Len(s) - Len(sub)) : SubSeq(s, i + 1, i + Len(sub)) = sub

\* What the user can have typed into the #stockSymbol field.
RawInputs ==
  { <<>>, <<Blank>>, <<"a">>, <<"A", Blank>>, <<Blank, "b">>, <<"B">>,
    <<"a", "B">> }

\* addStock's normalisation of the field's value.
Normalize(raw) == ToUpperCase(Trim(raw))

\* The symbols the inputs can produce.
Symbols == {Normalize(r) : r \in RawInputs} \ {<<>>}

\* ------------------------------------------------------------ JSON values
\* A JavaScript value as far as the watchlist code tells values apart: an
\* array of strings (v: its elements), a string (v: the one-element tuple
\* holding its text) or any other value (number, object, null).
JArray(l) == [t |-> "array", v |-> l]
JString(s) == [t |-> "string", v |-> <<s>>]
JOther == [t |-> "other", v |-> <<>>]

IsArray(j) == j.t = "array"

\* The localStorage entry 'stocks': absent, or a text.  A text is the empty
\* string, a text JSON.parse rejects, or the serialisation of a value.
NoEntry == [kind |-> "absent", json |-> JOther]
EmptyText == [kind |-> "empty", json |-> JOther]
Garbage == [kind |-> "garbage", json |-> JOther]

\* JSON.stringify
JSONstringify(j) == [kind |-> "json", json |-> j]

\* `if (saved)`: null and the empty string are falsy
Truthy(entry) == entry.kind \notin {"absent", "empty"}

\* JSON.parse throws on a text that is not JSON
ParseThrows(entry) == entry.kind = "garbage"
JSONparse(entry) == entry.json

\* Length of the longest history series a response carries.
MaxHist == 2
\* Length of the longest forecast a response carries.
MaxPred == 1
\* fetchHistory requests in flight.
MaxHistReqs == 2

\* ------------------------------------------------------------------ state
VARIABLES
  loaded,        \* the DOMContentLoaded handler has run
  storage,       \* localStorage entry 'stocks'
  stocks,        \* let stocks
  cards,         \* children of #stockCards, in document order
  quoteReqs,     \* fetch(/stock/<symbol>) calls in flight
  timers,        \* pending setTimeout(() => removeStock(symbol), 3000)
  alertMsg,      \* the alert() raised by the latest step, NoAlert if none
  currentSymbol, \* let currentSymbol
  currentPeriod, \* let currentPeriod
  currentChart,  \* let currentChart
  liveCharts,    \* Chart instances constructed and not yet destroyed
  chartVisible,  \* #chartSection is displayed
  chartTitle,    \* text of #chartTitle
  activeBtns,    \* the period controls carrying the class 'active'
  histReqs,      \* fetchHistory's fetch(/history/...) calls in flight
  pred,          \* the showPrediction run, where it is suspended
  btn            \* the prediction control: disabled, textContent

watchVars == <<loaded, storage, stocks, cards, quoteReqs, timers>>
chartVars == <<currentSymbol, currentPeriod, currentChart, liveCharts,
               chartTitle, activeBtns, histReqs, pred, btn>>
vars == <<watchVars, alertMsg, chartVisible, chartVars>>

\* null, for the variables that hold a symbol or null
Null == <<>>

\* alert(): the message, and for the prediction summary the symbol it names
\* and the symbol whose forecast it reports
Alert(msg) == [msg |-> msg, about |-> Null, data |-> Null]
NoAlert == Alert("")

\* ------------------------------------------------------------------ cards
\* getElementById(`stock-${id}`): the position of the card, 0 if there is none
CardIndex(cs, id) ==
  IF \E i \in 1..Len(cs) : cs[i].id = id
  THEN CHOOSE i \in 1..Len(cs) : cs[i].id = id /\ \A j \in 1..(i - 1) : cs[j].id # id
  ELSE 0

HasCard(cs, id) == CardIndex(cs, id) # 0

\* The card fetchStockData creates.
LoadingCard(id) ==
  [id |-> id, className |-> "stock-card loading", html |-> "loading", onclick |-> FALSE]

\* a removal that leaves the card in the document
RemoveCardSkipped(cs, id) == cs

\* Element.remove() on the card with this id, if there is one
RemoveCard(cs, id) ==
  LET k == CardIndex(cs, id)
  IN  IF k = 0 THEN cs
      ELSE [i \in 1..(Len(cs) - 1) |-> IF i < k THEN cs[i] ELSE cs[i + 1]]

\* ---------------------------------------------------------- bags of calls
QuoteKeys == [symbol : Symbols, attached : BOOLEAN]
BagAdd(b, k) == [b EXCEPT ![k] = @ + 1]
BagRemove(b, k) == [b EXCEPT ![k] = @ - 1]
BagSize(b) ==
  LET RECURSIVE Sum(_)
      Sum(ks) == IF ks = {} THEN 0
                 ELSE LET k == CHOOSE x \in ks : TRUE IN b[k] + Sum(ks \ {k})
  IN  Sum(DOMAIN b)

Pending == BagSize(quoteReqs) + BagSize(timers)

\* -------------------------------------------------------- fetchStockData
\* fetchStockData up to its await: the loading card is created unless a card
\* with the id exists, and the request is issued.  The request keeps the card
\* it found or created (`attached`: that card is still in the document).
CardsAfterFetchStart(cs, symbol) ==
  IF HasCard(cs, symbol) THEN cs ELSE Append(cs, LoadingCard(symbol))

ReqsAfterFetchStart(qr, symbol) ==
  BagAdd(qr, [symbol |-> symbol, attached |-> TRUE])

\* stocks.forEach(symbol => fetchStockData(symbol))
RECURSIVE CardsAfterForEach(_, _)
CardsAfterForEach(cs, list) ==
  IF list = <<>> THEN cs
  ELSE CardsAfterForEach(CardsAfterFetchStart(cs, Head(list)), Tail(list))

RECURSIVE ReqsAfterForEach(_, _)
ReqsAfterForEach(qr, list) ==
  IF list = <<>> THEN qr
  ELSE ReqsAfterForEach(ReqsAfterFetchStart(qr, Head(list)), Tail(list))

\* ------------------------------------------------------------- addStock
\* addStock without its duplicate check
IncludesNever(st, symbol) == FALSE

\* stocks.includes(symbol): Array.prototype.includes on an array,
\* String.prototype.includes (substring search) on a string
Includes(st, symbol) ==
  IF IsArray(st) THEN \E i \in 1..Len(st.v) : st.v[i] = symbol
  ELSE StrIncludes(st.v[1], symbol)

\* addStock without the return of its duplicate check
AddOutcomeFallsThrough(st, symbol) ==
  CASE symbol = <<>> -> "empty"
    [] symbol # <<>> /\ st.t # "array" -> "throws"
    [] OTHER -> "added"

\* How far addStock gets with the normalised symbol: the two validation
\* returns, a TypeError (includes or push is not a function of a value that
\* is no array), or the push.
AddOutcome(st, symbol) ==
  CASE symbol = <<>> -> "empty"
    [] symbol # <<>> /\ st.t = "other" -> "throws"
    [] symbol # <<>> /\ st.t # "other" /\ Includes(st, symbol) -> "duplicate"
    [] symbol # <<>> /\ st.t = "string" /\ ~Includes(st, symbol) -> "throws"
    [] OTHER -> "added"

\* stocks.push(symbol)
Push(st, symbol) == JArray(Append(st.v, symbol))

\* a mutation that is not written back
SetItemSkipped(entry, st) == entry

\* localStorage.setItem('stocks', JSON.stringify(stocks))
SetItem(entry, st) == JSONstringify(st)

AddStock(raw) ==
  LET symbol == Normalize(raw)
      outcome == AddOutcome(stocks, symbol)
  IN  /\ loaded
      /\ outcome = "added" => Pending < MaxPending
      /\ alertMsg' = CASE outcome = "empty" -> Alert("Please enter a stock symbol")
                       [] outcome = "duplicate" -> Alert("Stock already added")
                       [] OTHER -> NoAlert
      /\ IF outcome = "added"
         THEN /\ stocks' = Push(stocks, symbol)
              /\ storage' = SetItem(storage, stocks')
              /\ cards' = CardsAfterFetchStart(cards, symbol)
              /\ quoteReqs' = ReqsAfterFetchStart(quoteReqs, symbol)
         ELSE UNCHANGED <<stocks, storage, cards, quoteReqs>>
      /\ UNCHANGED <<loaded, timers, chartVisible, chartVars>>

\* ------------------------------------------------- DOMContentLoaded handler
Load ==
  /\ ~loaded
  /\ loaded' = TRUE
  /\ alertMsg' = NoAlert
  /\ IF Truthy(storage) /\ ~ParseThrows(storage)
     THEN /\ stocks' = JSONparse(storage)
          /\ IF IsArray(stocks')
             THEN /\ cards' = CardsAfterForEach(cards, stocks'.v)
                  /\ quoteReqs' = ReqsAfterForEach(quoteReqs, stocks'.v)
             ELSE UNCHANGED <<cards, quoteReqs>>   \* forEach is not a function
     ELSE UNCHANGED <<stocks, cards, quoteReqs>>
  /\ UNCHANGED <<storage, timers, chartVisible, chartVars>>

\* ----------------------------------------------------------- removeStock
\* stocks.filter(s => s !== symbol)
Filter(st, symbol) == JArray(SelectSeq(st.v, LAMBDA s : s # symbol))

\* The card's requests keep a card that is no longer in the document.
Detach(qr, symbol) ==
  LET a == [symbol |-> symbol, attached |-> TRUE]
      d == [symbol |-> symbol, attached |-> FALSE]
  IN  [qr EXCEPT ![d] = @ + qr[a], ![a] = 0]

\* if (currentSymbol === symbol) chartSection.style.display = 'none'
VisibleAfterRemove(visible, current, symbol) ==
  IF current = symbol THEN FALSE ELSE visible

\* removeStock(symbol); on a value that is no array, filter is not a function
\* and the call throws before it changes anything
RemoveStock(symbol) ==
  IF IsArray(stocks)
  THEN /\ stocks' = Filter(stocks, symbol)
       /\ storage' = SetItem(storage, stocks')
       /\ cards' = RemoveCard(cards, symbol)
       /\ quoteReqs' = IF HasCard(cards, symbol) THEN Detach(quoteReqs, symbol)
                       ELSE quoteReqs
       /\ chartVisible' = VisibleAfterRemove(chartVisible, currentSymbol, symbol)
  ELSE UNCHANGED <<stocks, storage, cards, quoteReqs, chartVisible>>

\* A click on the Remove button of a rendered card (the button is part of the
\* markup displayStock writes; the card's own click handler ignores it).
UserRemove(symbol) ==
  /\ loaded
  /\ HasCard(cards, symbol)
  /\ cards[CardIndex(cards, symbol)].html = "quote"
  /\ RemoveStock(symbol)
  /\ alertMsg' = NoAlert
  /\ UNCHANGED <<loaded, timers, chartVars>>

\* The timeout set by a failed quote fetch fires.
AutoRemove(symbol) ==
  /\ timers[symbol] > 0
  /\ timers' = BagRemove(timers, symbol)
  /\ RemoveStock(symbol)
  /\ alertMsg' = NoAlert
  /\ UNCHANGED <<loaded, chartVars>>

\* ------------------------------------- fetchStockData, after the response
\* What the quote request resolves to: an ok response whose payload names a
\* symbol, a response with a non-ok status, or a rejected fetch.
QuoteOutcomes ==
  {[status |-> "ok", symbol |-> d] : d \in Symbols}
    \cup {[status |-> "nonok", symbol |-> Null], [status |-> "failed", symbol |-> Null]}

\* displayStock(data), for a payload whose symbol has a card
DisplayStock(cs, d) ==
  [cs EXCEPT ![CardIndex(cs, d)] =
     [id |-> d, className |-> "stock-card", html |-> "quote", onclick |-> TRUE]]

\* card.innerHTML = <error message>, on the card the call found or created
ShowError(cs, req, message) ==
  IF req.attached /\ HasCard(cs, req.symbol)
  THEN [cs EXCEPT ![CardIndex(cs, req.symbol)].html = message]
  ELSE cs

\* The branch fetchStockData's continuation takes: "display", the non-ok
\* branch, or the catch block (a rejected fetch, or the TypeError displayStock
\* raises when no card has the payload's id).
QuoteBranch(cs, out) ==
  CASE out.status = "ok" /\ HasCard(cs, out.symbol) -> "display"
    [] out.status = "ok" /\ ~HasCard(cs, out.symbol) -> "catch"
    [] out.status = "nonok" -> "else"
    [] OTHER -> "catch"

QuoteResolve(req, out) ==
  LET branch == QuoteBranch(cards, out)
  IN  /\ quoteReqs[req] > 0
      /\ quoteReqs' = BagRemove(quoteReqs, req)
      /\ cards' = CASE branch = "display" -> DisplayStock(cards, out.symbol)
                    [] branch = "else" -> ShowError(cards, req, "error")
                    [] OTHER -> ShowError(cards, req, "failed")
      /\ timers' = IF branch = "display" THEN timers
                   ELSE BagAdd(timers, req.symbol)
      /\ alertMsg' = NoAlert
      /\ UNCHANGED <<loaded, storage, stocks, chartVisible, chartVars>>

\* -------------------------------------------------------------- the chart
\* The period controls (`.chart-controls button`) in document order, each
\* named by the period it passes to showHistory; the first is the control
\* of the default period.
Periods == <<"1mo", "1y">>
PeriodSet == {Periods[i] : i \in 1..Len(Periods)}
DefaultPeriod == "1mo"

\* One element of a series: the i-th date or price the backend reports for a
\* symbol and period (history) or for a symbol (forecast).
Point(src, symbol, period, i) ==
  [src |-> src, symbol |-> symbol, period |-> period, i |-> i]
\* null, as an element of a dataset
NoValue == Point("null", Null, "", 0)
\* undefined: an index past the end of an array
Undefined == Point("undefined", Null, "", 0)

\* GET /history/{symbol}?period={period}: a series of n points
HistoryData(symbol, period, n) ==
  [dates |-> [i \in 1..n |-> Point("date", symbol, period, i)],
   prices |-> [i \in 1..n |-> Point("price", symbol, period, i)]]

\* GET /predict/{symbol}?days=7: the forecast series of k points
PredictionData(symbol, k) ==
  [dates |-> [i \in 1..k |-> Point("forecast date", symbol, "", i)],
   prices |-> [i \in 1..k |-> Point("forecast price", symbol, "", i)]]

\* drawChart's splitIndex when the argument is left out (null)
NoSplit == -1
\* `if (splitIndex)`: null and 0 are falsy
SplitTruthy(splitIndex) == splitIndex # NoSplit /\ splitIndex # 0

\* data[i], i counted from 0
At(data, i) == IF i >= 0 /\ i < Len(data) THEN data[i + 1] ELSE Undefined
\* data.slice(from, to), to exclusive, both clamped to the length
Slice(data, from, to) ==
  LET hi == IF to > Len(data) THEN Len(data) ELSE to
  IN  IF from >= hi THEN <<>> ELSE SubSeq(data, from + 1, hi)
\* Array(n).fill(null)
Nulls(n) == [i \in 1..n |-> NoValue]

\* The datasets drawChart builds.
Datasets(data, splitIndex) ==
  IF SplitTruthy(splitIndex)
  THEN << [label |-> "Historical", data |-> Slice(data, 0, splitIndex)],
          [label |-> "Prediction",
           data |-> Nulls(splitIndex - 1) \o <<At(data, splitIndex - 1)>>
                      \o Slice(data, splitIndex, Len(data))] >>
  ELSE << [label |-> "Price", data |-> data] >>

NoTitle == [symbol |-> Null, kind |-> ""]
\* currentChart = null
NoChart ==
  [null |-> TRUE, labels |-> <<>>, datasets |-> <<>>, title |-> NoTitle]

\* new Chart(ctx, {...})
NewChart(labels, datasets, title) ==
  [null |-> FALSE, labels |-> labels, datasets |-> datasets, title |-> title]

\* a redraw that does not dispose of the chart it replaces
LiveWithoutDestroy(live, chart) == live

\* if (currentChart) currentChart.destroy(): the live instances left
LiveAfterDestroy(live, chart) == IF chart.null THEN live ELSE live - 1

\* drawChart(labels, data, title, splitIndex)
DrawChart(labels, data, title, splitIndex) ==
  /\ liveCharts' = LiveAfterDestroy(liveCharts, currentChart) + 1
  /\ currentChart' = NewChart(labels, Datasets(data, splitIndex), title)

\* ------------------------------------------ showChart, showHistory, fetchHistory
HistKeys == [symbol : Symbols, period : PeriodSet]

\* fetchHistory up to its await
FetchHistoryStart(symbol, period) ==
  /\ BagSize(histReqs) < MaxHistReqs
  /\ histReqs' = BagAdd(histReqs, [symbol |-> symbol, period |-> period])

\* A click on a card that displayStock has rendered, outside its Remove button.
ShowChart(symbol) ==
  /\ loaded
  /\ HasCard(cards, symbol)
  /\ cards[CardIndex(cards, symbol)].onclick
  /\ currentSymbol' = symbol
  /\ chartVisible' = TRUE
  /\ chartTitle' = symbol
  /\ activeBtns' = {Periods[1]}
  /\ currentPeriod' = DefaultPeriod
  /\ FetchHistoryStart(symbol, DefaultPeriod)
  /\ alertMsg' = NoAlert
  /\ UNCHANGED <<watchVars, currentChart, liveCharts, pred, btn>>

\* a showHistory that marks the chosen control without unmarking the others
ShowHistoryKeepsActive(period) ==
  /\ loaded
  /\ chartVisible
  /\ alertMsg' = NoAlert
  /\ IF currentSymbol = Null
     THEN UNCHANGED <<currentPeriod, activeBtns, histReqs>>
     ELSE /\ currentPeriod' = period
          /\ activeBtns' = activeBtns \cup {period}
          /\ FetchHistoryStart(currentSymbol, period)
  /\ UNCHANGED <<watchVars, chartVisible, currentSymbol, currentChart,
                 liveCharts, chartTitle, pred, btn>>

\* A click on a period control of the displayed chart panel.
ShowHistory(period) ==
  /\ loaded
  /\ chartVisible
  /\ alertMsg' = NoAlert
  /\ IF currentSymbol = Null
     THEN UNCHANGED <<currentPeriod, activeBtns, histReqs>>
     ELSE /\ currentPeriod' = period
          /\ activeBtns' = {period}
          /\ FetchHistoryStart(currentSymbol, period)
  /\ UNCHANGED <<watchVars, chartVisible, currentSymbol, currentChart,
                 liveCharts, chartTitle, pred, btn>>

\* What a history request resolves to: an ok response with a series of n
\* points, a non-ok response, or a rejected fetch.
HistOutcomes ==
  {[status |-> "ok", n |-> n] : n \in 0..MaxHist}
    \cup {[status |-> "nonok", n |-> 0], [status |-> "failed", n |-> 0]}

\* a fetchHistory that draws whatever the response's status is
HistoryResolveIgnoresStatus(req, out) ==
  /\ histReqs[req] > 0
  /\ histReqs' = BagRemove(histReqs, req)
  /\ LET data == HistoryData(req.symbol, req.period, out.n)
     IN  DrawChart(data.dates, data.prices,
                   [symbol |-> req.symbol, kind |-> "Price History"], NoSplit)
  /\ alertMsg' = NoAlert
  /\ UNCHANGED <<watchVars, chartVisible, currentSymbol, currentPeriod,
                 chartTitle, activeBtns, pred, btn>>

\* a fetchHistory that drops the response to a request that is no longer
\* the current selection
HistoryResolveDropsStale(req, out) ==
  /\ histReqs[req] > 0
  /\ histReqs' = BagRemove(histReqs, req)
  /\ IF out.status = "ok" /\ req.symbol = currentSymbol /\ req.period = currentPeriod
     THEN LET data == HistoryData(req.symbol, req.period, out.n)
          IN  DrawChart(data.dates, data.prices,
                        [symbol |-> req.symbol, kind |-> "Price History"], NoSplit)
     ELSE UNCHANGED <<currentChart, liveCharts>>
  /\ alertMsg' = NoAlert
  /\ UNCHANGED <<watchVars, chartVisible, currentSymbol, currentPeriod,
                 chartTitle, activeBtns, pred, btn>>

\* fetchHistory after the response
HistoryResolve(req, out) ==
  /\ histReqs[req] > 0
  /\ histReqs' = BagRemove(histReqs, req)
  /\ IF out.status = "ok"
     THEN LET data == HistoryData(req.symbol, req.period, out.n)
          IN  DrawChart(data.dates, data.prices,
                        [symbol |-> req.symbol, kind |-> "Price History"], NoSplit)
     ELSE UNCHANGED <<currentChart, liveCharts>>
  /\ alertMsg' = NoAlert
  /\ UNCHANGED <<watchVars, chartVisible, currentSymbol, currentPeriod,
                 chartTitle, activeBtns, pred, btn>>

\* --------------------------------------------------------- showPrediction
\* No showPrediction call is suspended.
Idle ==
  [pc |-> "idle", symbol |-> Null, k |-> 0, series |-> FALSE,
   histSymbol |-> Null, histPeriod |-> ""]

BtnNormal == [disabled |-> FALSE, text |-> "Show Prediction"]
BtnBusy == [disabled |-> TRUE, text |-> "Loading prediction..."]

\* a run that ends without restoring the control
FinallySkipped(b) == b

\* the finally block
Finally(b) == BtnNormal

\* a prediction control that raises clicks while it is disabled
ShowPredictionWhileDisabled ==
  /\ loaded
  /\ chartVisible
  /\ alertMsg' = NoAlert
  /\ IF currentSymbol = Null
     THEN UNCHANGED <<btn, pred>>
     ELSE /\ btn' = BtnBusy
          /\ pred' = [Idle EXCEPT !.pc = "predict", !.symbol = currentSymbol]
  /\ UNCHANGED <<watchVars, chartVisible, currentSymbol, currentPeriod,
                 currentChart, liveCharts, chartTitle, activeBtns, histReqs>>

\* A click on the prediction control of the displayed chart panel; a disabled
\* control raises no click.  The call runs up to its first await.
ShowPrediction ==
  /\ loaded
  /\ chartVisible
  /\ ~btn.disabled
  /\ alertMsg' = NoAlert
  /\ IF currentSymbol = Null
     THEN UNCHANGED <<btn, pred>>
     ELSE /\ btn' = BtnBusy
          /\ pred' = [Idle EXCEPT !.pc = "predict", !.symbol = currentSymbol]
  /\ UNCHANGED <<watchVars, chartVisible, currentSymbol, currentPeriod,
                 currentChart, liveCharts, chartTitle, activeBtns, histReqs>>

\* What the prediction request resolves to: an ok response with a forecast
\* of k points, an ok response without `predictions`, a non-ok response, or
\* a rejected fetch.
PredictOutcomes ==
  {[status |-> "ok", k |-> k, series |-> TRUE] : k \in 0..MaxPred}
    \cup {[status |-> "ok", k |-> 0, series |-> FALSE],
          [status |-> "nonok", k |-> 0, series |-> FALSE],
          [status |-> "failed", k |-> 0, series |-> FALSE]}

\* a showPrediction that goes on to the history request whatever the status
PredictResolveIgnoresStatus(out) ==
  /\ pred.pc = "predict"
  /\ pred' = [pred EXCEPT !.pc = "history", !.k = out.k,
                          !.series = out.series,
                          !.histSymbol = currentSymbol,
                          !.histPeriod = currentPeriod]
  /\ alertMsg' = NoAlert
  /\ UNCHANGED btn
  /\ UNCHANGED <<watchVars, chartVisible, currentSymbol, currentPeriod,
                 currentChart, liveCharts, chartTitle, activeBtns, histReqs>>

\* showPrediction after the prediction response: on ok the history request
\* is issued for the symbol and period current now.
PredictResolve(out) ==
  /\ pred.pc = "predict"
  /\ IF out.status = "ok"
     THEN /\ pred' = [pred EXCEPT !.pc = "history", !.k = out.k,
                                  !.series = out.series,
                                  !.histSymbol = currentSymbol,
                                  !.histPeriod = currentPeriod]
          /\ alertMsg' = NoAlert
          /\ UNCHANGED btn
     ELSE /\ pred' = Idle
          /\ alertMsg' = IF out.status = "nonok" THEN Alert("Error")
                         ELSE Alert("Failed to get prediction")
          /\ btn' = Finally(btn)
  /\ UNCHANGED <<watchVars, chartVisible, currentSymbol, currentPeriod,
                 currentChart, liveCharts, chartTitle, activeBtns, histReqs>>

\* What showPrediction's history request resolves to: a response with an ok
\* or a non-ok status whose body carries a series of n points or carries no
\* `dates`, or a rejected fetch.
PredHistOutcomes ==
  {[status |-> st, n |-> n, series |-> TRUE] : st \in {"ok", "nonok"}, n \in 0..MaxHist}
    \cup {[status |-> st, n |-> 0, series |-> FALSE] : st \in {"ok", "nonok", "failed"}}

\* [...histData.x, ...data.predictions.x]
Concat(a, b) == a \o b

\* showPrediction after the history response: the composition, the drawing
\* and the summary, or the catch block when the fetch was rejected or a
\* series is missing (spreading undefined is a TypeError); then finally.
\* The status of the history response is not looked at.
PredHistoryResolve(out) ==
  /\ pred.pc = "history"
  /\ pred' = Idle
  /\ btn' = Finally(btn)
  /\ IF out.status # "failed" /\ out.series /\ pred.series
     THEN LET hist == HistoryData(pred.histSymbol, pred.histPeriod, out.n)
              fc == PredictionData(pred.symbol, pred.k)
          IN  /\ DrawChart(Concat(hist.dates, fc.dates),
                           Concat(hist.prices, fc.prices),
                           [symbol |-> currentSymbol,
                            kind |-> "History + 7-Day Prediction"],
                           Len(hist.dates))
              /\ alertMsg' = [msg |-> "Prediction for", about |-> currentSymbol,
                              data |-> pred.symbol]
     ELSE /\ alertMsg' = Alert("Failed to get prediction")
          /\ UNCHANGED <<currentChart, liveCharts>>
  /\ UNCHANGED <<watchVars, chartVisible, currentSymbol, currentPeriod,
                 chartTitle, activeBtns, histReqs>>

\* ------------------------------------------------------- the specification
\* Lists of at most n symbols without repetition.
RECURSIVE Lists(_)
Lists(n) ==
  IF n = 0 THEN {<<>>}
  ELSE Lists(n - 1) \cup
       {Append(l, s) : l \in {x \in Lists(n - 1) : Len(x) = n - 1}, s \in Symbols}

NoDuplicates(l) == \A i, j \in 1..Len(l) : l[i] = l[j] => i = j

\* What the 'stocks' entry can hold when the page is opened: nothing, what
\* an earlier session wrote (a list without duplicates), or content that is
\* not the serialisation of a list.
InitialEntries ==
  {NoEntry, EmptyText, Garbage, JSONstringify(JOther)}
    \cup {JSONstringify(JString(s)) : s \in Symbols}
    \cup {JSONstringify(JArray(l)) : l \in {x \in Lists(MaxSaved) : NoDuplicates(x)}}

Init ==
  /\ loaded = FALSE
  /\ storage \in InitialEntries
  /\ stocks = JArray(<<>>)
  /\ cards = <<>>
  /\ quoteReqs = [k \in QuoteKeys |-> 0]
  /\ timers = [s \in Symbols |-> 0]
  /\ alertMsg = NoAlert
  /\ currentSymbol = Null
  /\ currentPeriod = DefaultPeriod
  /\ currentChart = NoChart
  /\ liveCharts = 0
  /\ chartVisible = FALSE
  /\ chartTitle = Null
  /\ activeBtns = {Periods[1]}
  /\ histReqs = [k \in HistKeys |-> 0]
  /\ pred = Idle
  /\ btn = BtnNormal

\* The watchlist component: the page from its construction, the watchlist
\* operations and the card click that selects the charted symbol.  The
\* chart operations read the watchlist only through the rendered cards and
\* write none of its variables, so they are left to ChartSpec.
WatchNext ==
  \/ Load
  \/ \E raw \in RawInputs : AddStock(raw)
  \/ \E s \in Symbols : UserRemove(s)
  \/ \E s \in Symbols : AutoRemove(s)
  \/ \E req \in QuoteKeys, out \in QuoteOutcomes : QuoteResolve(req, out)
  \/ \E s \in Symbols : ShowChart(s)

WatchSpec == Init /\ [][WatchNext]_vars

\* A timeout that is set fires.
WatchFairness == \A s \in Symbols : WF_vars(AutoRemove(s))
FairWatchSpec == WatchSpec /\ WatchFairness

\* The chart component starts from a loaded page whose watchlist holds two
\* rendered cards (a state WatchSpec reaches), so that every card click is
\* possible at any time; the watchlist operations can only hide the panel,
\* which takes chart steps away and adds none.
SymA == <<"A">>
SymB == <<"B">>
ChartInit ==
  /\ loaded = TRUE
  /\ stocks = JArray(<<SymA, SymB>>)
  /\ storage = JSONstringify(stocks)
  /\ cards = DisplayStock(DisplayStock(<<LoadingCard(SymA), LoadingCard(SymB)>>,
                                       SymA), SymB)
  /\ quoteReqs = [k \in QuoteKeys |-> 0]
  /\ timers = [s \in Symbols |-> 0]
  /\ alertMsg = NoAlert
  /\ currentSymbol = Null
  /\ currentPeriod = DefaultPeriod
  /\ currentChart = NoChart
  /\ liveCharts = 0
  /\ chartVisible = FALSE
  /\ chartTitle = Null
  /\ activeBtns = {Periods[1]}
  /\ histReqs = [k \in HistKeys |-> 0]
  /\ pred = Idle
  /\ btn = BtnNormal

ChartNext ==
  \/ \E s \in Symbols : ShowChart(s)
  \/ \E p \in PeriodSet : ShowHistory(p)
  \/ \E req \in HistKeys, out \in HistOutcomes : HistoryResolve(req, out)
  \/ ShowPrediction
  \/ \E out \in PredictOutcomes : PredictResolve(out)
  \/ \E out \in PredHistOutcomes : PredHistoryResolve(out)

ChartSpec == ChartInit /\ [][ChartNext]_vars

\* A fetch that was issued settles: its response arrives or it is rejected.
ChartFairness ==
  /\ WF_vars(\E out \in PredictOutcomes : PredictResolve(out))
  /\ WF_vars(\E out \in PredHistOutcomes : PredHistoryResolve(out))
FairChartSpec == ChartSpec /\ ChartFairness

\* ================================================================= claims
\* The symbols of the watchlist, when it is a list.
Watchlist == IF IsArray(stocks) THEN {stocks.v[i] : i \in 1..Len(stocks.v)} ELSE {}

\* C1: the watchlist never contains a duplicate symbol: whenever `stocks` is
\* a list (the page started from no entry or from a persisted list without
\* duplicates), every symbol occurs in it at most once.
C1_NoDuplicateSymbols == IsArray(stocks) => NoDuplicates(stocks.v)

\* C1 witness: every symbol is in the watchlist and an auto-removal is pending,
\* right after an addStock that was refused as a duplicate.
C1_Witness ==
  /\ IsArray(stocks) /\ Len(stocks.v) = Cardinality(Symbols)
  /\ alertMsg = Alert("Stock already added")
  /\ BagSize(timers) > 0

\* The step is addStock(raw) with an input that fails validation.
IsValidationError(raw) ==
  \/ Trim(raw) = <<>>
  \/ IsArray(stocks) /\ ToUpperCase(Trim(raw)) \in Watchlist

\* C2: a validation error changes no state: an addStock whose input is empty
\* after trimming, or whose trimmed, uppercased form is in the watchlist,
\* raises an alert and leaves the watchlist, the persisted entry, the cards
\* and the quote requests in flight as they were.
C2_ValidationErrorKeepsState ==
  [][\A raw \in RawInputs :
       (IsValidationError(raw) /\ AddStock(raw))
         => /\ alertMsg' \in {Alert("Please enter a stock symbol"),
                              Alert("Stock already added")}
            /\ UNCHANGED <<stocks, storage, cards, quoteReqs, timers>>]_vars

\* C2 witness: a duplicate was just refused while the symbol's quote request
\* is still in flight and another symbol's card is rendered.
C2_Witness ==
  /\ alertMsg = Alert("Stock already added")
  /\ BagSize(quoteReqs) > 0
  /\ \E i \in 1..Len(cards) : cards[i].html = "quote"

\* The step is an addStock that pushes, or a removeStock (by the Remove
\* button or by the timeout).
IsMutation ==
  \/ \E raw \in RawInputs :
       AddOutcome(stocks, Normalize(raw)) = "added" /\ AddStock(raw)
  \/ \E s \in Symbols : UserRemove(s) \/ AutoRemove(s)

\* C3: the watchlist is persisted after every mutation: once the page has
\* loaded a list, at the end of every addStock and removeStock step the
\* persisted entry is the serialisation of the in-memory watchlist, the same
\* symbols in the same order.
C3_PersistedAfterMutation ==
  [][(loaded /\ IsArray(stocks) /\ IsMutation)
       => /\ storage'.kind = "json"
          /\ JSONparse(storage') = stocks']_vars

\* C3 witness: a symbol was removed while its quote request was in flight
\* and added again, and the persisted entry is the watchlist of two symbols.
C3_Witness ==
  /\ loaded /\ IsArray(stocks) /\ Len(stocks.v) = 2
  /\ storage = JSONstringify(stocks)
  /\ \E s \in Watchlist : quoteReqs[[symbol |-> s, attached |-> FALSE]] > 0

\* The step is the continuation of fetchStockData(req.symbol) on a failure.
IsQuoteFailure(req, out) ==
  QuoteResolve(req, out) /\ QuoteBranch(cards, out) # "display"

\* The card of the symbol shows an error message.
ShowsError(cs, s) ==
  \E i \in 1..Len(cs) : cs[i].id = s /\ cs[i].html \in {"error", "failed"}

\* The symbols of the persisted list.
PersistedList ==
  IF storage.kind = "json" /\ IsArray(storage.json)
  THEN {storage.json.v[i] : i \in 1..Len(storage.json.v)}
  ELSE {}

\* The symbol is in neither list and has no card.
IsRemoved(s) ==
  /\ s \notin Watchlist
  /\ s \notin PersistedList
  /\ \A i \in 1..Len(cards) : cards[i].id # s

\* The step issues a quote request for the symbol.
IssuesQuoteRequest(s) ==
  quoteReqs'[[symbol |-> s, attached |-> TRUE]]
    > quoteReqs[[symbol |-> s, attached |-> TRUE]]

\* C4: when a quote fetch for a symbol fails, the symbol's card shows an
\* error; while the auto-removal it schedules is pending no quote request is
\* issued for the symbol; and the symbol is eventually removed from the
\* watchlist and the persisted list, together with its card.
C4_FailedQuoteIsRemoved ==
  /\ [][\A req \in QuoteKeys, out \in QuoteOutcomes :
          IsQuoteFailure(req, out) => ShowsError(cards', req.symbol)]_vars
  /\ [][\A s \in Symbols : timers[s] > 0 => ~IssuesQuoteRequest(s)]_vars
  /\ \A s \in Symbols : (timers[s] > 0) ~> IsRemoved(s)

\* The persisted entry is absent or is not the serialisation of a list.
AbsentOrMalformed(entry) == entry.kind # "json" \/ ~IsArray(entry.json)

\* C5: loading fails soft: when the persisted entry is absent or malformed,
\* the DOMContentLoaded handler leaves an empty watchlist, issues no quote
\* request, and an addStock of any valid symbol then pushes it.
C5_LoadFailsSoft ==
  [][(Load /\ AbsentOrMalformed(storage))
       => /\ stocks' = JArray(<<>>)
          /\ BagSize(quoteReqs') = 0
          /\ \A s \in Symbols : AddOutcome(stocks', s) = "added"]_vars

\* The step is removeStock(s), by the Remove button or by the timeout.
IsRemoveStock(s) == UserRemove(s) \/ AutoRemove(s)

\* C6: removeStock(symbol) removes exactly one card, the symbol's, and the
\* symbol's watchlist entry, leaves the other cards and entries in place and
\* in order, hides the chart panel if the symbol is the charted one and
\* leaves the panel as it is otherwise.
C6_RemoveStockFrame ==
  [][\A s \in Symbols :
       IsRemoveStock(s)
         => /\ Len(cards') = Len(cards) - 1
            /\ cards' = SelectSeq(cards, LAMBDA c : c.id # s)
            /\ stocks'.v = SelectSeq(stocks.v, LAMBDA x : x # s)
            /\ currentSymbol = s => ~chartVisible'
            /\ currentSymbol # s => chartVisible' = chartVisible]_vars

\* C7: the charted symbol is unset or is a member of the watchlist.
C7_ChartedSymbolTracked == currentSymbol = Null \/ currentSymbol \in Watchlist

\* C8: at most one chart is live at any time: the chart `currentChart` refers
\* to is the only instance constructed and not destroyed, so each redraw
\* destroys a live chart (never one destroyed before) and leaves none behind.
C8_OneLiveChart ==
  /\ liveCharts <= 1
  /\ currentChart.null <=> liveCharts = 0

\* C8 witness: a composed prediction chart is the live chart while two
\* fetchHistory requests and the next prediction run are still in flight.
C8_Witness ==
  /\ ~currentChart.null /\ Len(currentChart.datasets) = 2
  /\ liveCharts = 1
  /\ BagSize(histReqs) = 2
  /\ pred.pc = "history"

\* C9: the prediction control never gets stuck disabled: whenever it is
\* disabled it is eventually enabled again with its normal label.
C9_ControlReenabled == btn.disabled ~> (btn = BtnNormal)

\* C9 witness: the control is disabled and busy while the run waits for a
\* history response, its prediction response having come without a series
\* (the composition will throw).
C9_Witness ==
  /\ btn = BtnBusy
  /\ pred.pc = "history" /\ ~pred.series

\* The dataset with the label, or the empty dataset when the chart has none.
DatasetOf(chart, label) ==
  IF \E d \in 1..Len(chart.datasets) : chart.datasets[d].label = label
  THEN chart.datasets[CHOOSE d \in 1..Len(chart.datasets) :
                        chart.datasets[d].label = label]
  ELSE [label |-> "", data |-> <<>>]

\* C10: for a history of n points and a forecast of k points, showPrediction
\* draws n+k labels, a 'Historical' dataset of the n history prices and a
\* 'Prediction' dataset that holds the last history price at index n-1, no
\* value below it, and the k forecast prices at indices n..n+k-1.
C10_PredictionComposition ==
  [][\A out \in PredHistOutcomes :
       (PredHistoryResolve(out) /\ out.status # "failed" /\ out.series /\ pred.series)
         => LET n == out.n
                k == pred.k
                hist == HistoryData(pred.histSymbol, pred.histPeriod, n)
                fc == PredictionData(pred.symbol, k)
                prediction == DatasetOf(currentChart', "Prediction")
            IN  /\ Len(currentChart'.labels) = n + k
                /\ DatasetOf(currentChart', "Historical").data = hist.prices
                /\ prediction.label = "Prediction"
                /\ Len(prediction.data) = n + k
                /\ \A i \in 1..(n - 1) : prediction.data[i] = NoValue
                /\ n >= 1 => prediction.data[n] = hist.prices[n]
                /\ \A j \in 1..k : prediction.data[n + j] = fc.prices[j]]_vars

\* The labels of the chart's datasets, in order.
DatasetLabels(chart) == [d \in 1..Len(chart.datasets) |-> chart.datasets[d].label]

\* C11: drawChart builds exactly the two datasets 'Historical' (the elements
\* at indices [0, splitIndex)) and 'Prediction' whenever a splitIndex is
\* supplied, the 0 that showPrediction passes for an empty history included,
\* and the single dataset 'Price' holding the whole series only when no
\* splitIndex is supplied (fetchHistory's call).
C11_DatasetsBySplitIndex ==
  [][/\ \A out \in PredHistOutcomes :
          (PredHistoryResolve(out) /\ currentChart' # currentChart)
            => /\ DatasetLabels(currentChart') = <<"Historical", "Prediction">>
               /\ currentChart'.datasets[1].data
                    = HistoryData(pred.histSymbol, pred.histPeriod, out.n).prices
     /\ \A req \in HistKeys, out \in HistOutcomes :
          (HistoryResolve(req, out) /\ out.status = "ok")
            => currentChart'.datasets
                 = << [label |-> "Price",
                       data |-> HistoryData(req.symbol, req.period, out.n).prices] >>
    ]_vars

\* C12: a failed history fetch leaves the chart as it is: when fetchHistory's
\* request ends with a non-ok status or is rejected, drawChart is not called,
\* the live chart and its datasets are those from before the request, and
\* no alert is raised.
C12_FailedHistoryKeepsChart ==
  [][\A req \in HistKeys, out \in HistOutcomes :
       (out.status # "ok" /\ HistoryResolve(req, out))
         => /\ currentChart' = currentChart
            /\ liveCharts' = liveCharts
            /\ alertMsg' = NoAlert]_vars

\* C12 witness: a symbol is charted, no request is in flight and no chart was
\* ever drawn: every history fetch so far has failed and has left the chart
\* (none) as it was.
C12_Witness ==
  /\ currentSymbol # Null /\ chartVisible
  /\ BagSize(histReqs) = 0 /\ pred = Idle
  /\ currentChart = NoChart /\ liveCharts = 0
  /\ currentPeriod # DefaultPeriod

\* The step raises one of showPrediction's error alerts.
ReportsPredictionError ==
  alertMsg' \in {Alert("Error"), Alert("Failed to get prediction")}

\* C13: a failed prediction request is reported and leaves the chart as it
\* is: when the prediction call fails (non-ok status, rejected fetch) or came
\* without its series, or the history call that follows fails (non-ok status,
\* rejected fetch, a body without the series), an error alert is raised,
\* drawChart is not called and the live chart and its datasets are unchanged.
C13_FailedPredictionKeepsChart ==
  [][/\ \A out \in PredictOutcomes :
          (out.status # "ok" /\ PredictResolve(out))
            => /\ ReportsPredictionError
               /\ UNCHANGED <<currentChart, liveCharts>>
     /\ \A out \in PredHistOutcomes :
          ((out.status # "ok" \/ ~out.series \/ ~pred.series) /\ PredHistoryResolve(out))
            => /\ ReportsPredictionError
               /\ UNCHANGED <<currentChart, liveCharts>>
    ]_vars

\* C14: within a showPrediction run the history request is issued only after
\* the prediction request has resolved with an ok status: the run comes to
\* wait for its history response only from waiting for its prediction
\* response, by the step that receives an ok response (so the two requests
\* are never in flight together), and a prediction response that is not ok
\* ends the run without a history request.
C14_HistoryAfterPrediction ==
  /\ [][(pred'.pc = "history" /\ pred.pc # "history")
          => /\ pred.pc = "predict"
             /\ \E out \in PredictOutcomes :
                  out.status = "ok" /\ PredictResolve(out)]_vars
  /\ [][\A out \in PredictOutcomes :
          (out.status # "ok" /\ PredictResolve(out)) => pred'.pc = "idle"]_vars

\* C14 witness: the run waits for its history response, after an ok
\* prediction response with a full forecast, while fetchHistory requests of
\* the panel are in flight as well.
C14_Witness ==
  /\ pred.pc = "history" /\ pred.series /\ pred.k = MaxPred
  /\ BagSize(histReqs) > 0

\* C15: exactly one period control is marked active at a time and it is the
\* control of the selected period: on a shown chart one control is active,
\* that of currentPeriod; after showHistory(p) it is the control just chosen
\* and currentPeriod is p; after showChart(symbol) currentPeriod is '1mo' and
\* the active control is that of '1mo'.
C15_OneActivePeriodControl ==
  /\ [](chartVisible => (Cardinality(activeBtns) = 1 /\ activeBtns = {currentPeriod}))
  /\ [][\A p \in PeriodSet :
          (currentSymbol # Null /\ ShowHistory(p))
            => (activeBtns' = {p} /\ currentPeriod' = p)]_vars
  /\ [][\A s \in Symbols :
          ShowChart(s) => (currentPeriod' = "1mo" /\ activeBtns' = {"1mo"})]_vars

\* C15 witness: on the shown chart a period other than the default was
\* chosen after the card click, both history requests still in flight.
C15_Witness ==
  /\ chartVisible /\ currentSymbol # Null
  /\ currentPeriod = "1y" /\ activeBtns = {"1y"}
  /\ histReqs[[symbol |-> currentSymbol, period |-> "1mo"]] > 0
  /\ histReqs[[symbol |-> currentSymbol, period |-> "1y"]] > 0

\* The ids of the cards in the document.
CardIds == {cards[i].id : i \in 1..Len(cards)}

\* C16: there is exactly one card per tracked symbol: the ids of the cards
\* are the symbols of the watchlist, and no two cards have the same id.
C16_OneCardPerSymbol ==
  /\ CardIds = Watchlist
  /\ \A i, j \in 1..Len(cards) : cards[i].id = cards[j].id => i = j

\* C16 witness: after a removal that left a quote request behind and a new
\* add, two symbols are tracked, each with its card, one of the cards showing
\* a failed quote whose auto-removal is pending.
C16_Witness ==
  /\ Len(cards) = 2 /\ IsArray(stocks) /\ Len(stocks.v) = 2
  /\ \E k \in QuoteKeys : ~k.attached /\ quoteReqs[k] > 0
  /\ \E i \in 1..Len(cards) :
       cards[i].html \in {"error", "failed"} /\ timers[cards[i].id] > 0

\* The quote requests in flight that hold the symbol's card in the document.
InFlight(s) == quoteReqs[[symbol |-> s, attached |-> TRUE]]

\* The card of the symbol shows the loading placeholder.
IsLoading(cs, s) == HasCard(cs, s) /\ cs[CardIndex(cs, s)].html = "loading"

\* C17: a card shows the loading placeholder exactly while its quote request
\* is in flight: a symbol's card is in the loading state if and only if a
\* request of fetchStockData(symbol) holding that card is unresolved, and
\* the step that resolves the request (an ok response with any payload
\* symbol, a non-ok response, a rejected fetch) leaves that card in the ok
\* or the error state.
C17_LoadingWhileInFlight ==
  /\ [](\A s \in Symbols : IsLoading(cards, s) <=> InFlight(s) > 0)
  /\ [][\A req \in QuoteKeys, out \in QuoteOutcomes :
          (req.attached /\ QuoteResolve(req, out))
            => ~IsLoading(cards', req.symbol)]_vars

\* C18: history fetches are not cancelled: a request leaves the requests in
\* flight only by its response, and an ok response draws the series of the
\* symbol and period it was requested for, whatever the selection is by then,
\* without touching currentSymbol, currentPeriod or the title element; so a
\* response that arrives late leaves the chart on the earlier selection's
\* series while the selection and the title name the later one.
C18_StaleHistoryOverwrites ==
  /\ [][\A k \in HistKeys :
          histReqs'[k] < histReqs[k]
            => \E out \in HistOutcomes : HistoryResolve(k, out)]_vars
  /\ [][\A req \in HistKeys, out \in HistOutcomes :
          (out.status = "ok" /\ HistoryResolve(req, out))
            => /\ currentChart'.title = [symbol |-> req.symbol, kind |-> "Price History"]
               /\ currentChart'.labels = HistoryData(req.symbol, req.period, out.n).dates
               /\ UNCHANGED <<currentSymbol, currentPeriod, chartTitle>>]_vars

\* C18 witness: every request has been answered and the chart shows the
\* default-period series of one symbol, while another symbol with another
\* period is the selection and is named by the title element.
C18_Witness ==
  /\ BagSize(histReqs) = 0 /\ chartVisible
  /\ currentChart.title.kind = "Price History"
  /\ Len(currentChart.labels) = MaxHist
  /\ currentChart.labels[1].symbol # currentSymbol
  /\ currentChart.labels[1].period = DefaultPeriod
  /\ currentPeriod # DefaultPeriod
  /\ chartTitle = currentSymbol

\* The symbols the elements of a series belong to.
SymbolsOf(series) == {series[i].symbol : i \in 1..Len(series)} \ {Null}

\* C19: a composed prediction chart is consistent: whenever showPrediction
\* draws, the historical segment, the prediction segment, the chart's title
\* and the summary alert all belong to the one symbol that was current when
\* the prediction was requested.
C19_PredictionChartConsistent ==
  [][\A out \in PredHistOutcomes :
       (PredHistoryResolve(out) /\ currentChart' # currentChart)
         => /\ SymbolsOf(currentChart'.labels) \subseteq {pred.symbol}
            /\ \A d \in 1..Len(currentChart'.datasets) :
                 SymbolsOf(currentChart'.datasets[d].data) \subseteq {pred.symbol}
            /\ currentChart'.title.symbol = pred.symbol
            /\ alertMsg'.about = pred.symbol
            /\ alertMsg'.data = pred.symbol]_vars

\* A showPrediction run is suspended at one of its awaits.
RunInProgress == pred.pc # "idle"

\* C20: at most one prediction run is in progress at any time: the control
\* is enabled, with its normal label, exactly when no run is in progress and
\* disabled with the busy label otherwise, and a showPrediction call for a
\* charted symbol starts only when no run is in progress.
C20_OnePredictionRun ==
  /\ [](IF RunInProgress THEN btn = BtnBusy ELSE btn = BtnNormal)
  /\ [][(currentSymbol # Null /\ ShowPrediction) => ~RunInProgress]_vars

\* C20 witness: a run waits for its prediction response with the control
\* disabled, after the selection has moved on to another symbol and another
\* period.
C20_Witness ==
  /\ pred.pc = "predict" /\ btn.disabled
  /\ currentSymbol # pred.symbol
  /\ currentPeriod # DefaultPeriod

====
